---- MODULE Spec2Model ----
(***************************************************************************)
(* A model of api/index.py: the Flask route telegram_webhook, which        *)
(* decodes a Telegram update, picks a command branch from the message      *)
(* text, calls the Shazam chart client, formats the tracks and sends one   *)
(* reply.                                                                  *)
(*                                                                         *)
(* Strings are sequences of characters; a character is a one-letter string *)
(* or, for the two non-ASCII digits the model uses, a symbolic name.       *)
(* Reply texts are records: the field "kind" stands for the fixed literal  *)
(* part of the message and the other fields for the interpolated values.   *)
(***************************************************************************)
EXTENDS Integers, Sequences, FiniteSets, TLC

----------------------------------------------------------------------------
(* Bounds of the model *)

\* Longest track list (and song_hits list) a lookup returns.
MaxTracks == 2
\* Handler invocations the transport may run at the same time.
NumWorkers == 2

----------------------------------------------------------------------------
(* Characters and the str methods the handler uses *)

Lowers == <<"a","b","c","d","e","f","g","h","i","j","k","l","m",
            "n","o","p","q","r","s","t","u","v","w","x","y","z">>
Uppers == <<"A","B","C","D","E","F","G","H","I","J","K","L","M",
            "N","O","P","Q","R","S","T","U","V","W","X","Y","Z">>

\* Characters str.strip() and str.split() treat as whitespace.
Whitespace == {" ", "\t"}

AsciiDigits == <<"0","1","2","3","4","5","6","7","8","9">>
\* U+0663 ARABIC-INDIC DIGIT THREE: category Nd, a decimal digit, value 3.
AR3 == "U+0663"
\* U+00B2 SUPERSCRIPT TWO: category No, Numeric_Type=Digit, not a decimal.
SUP2 == "U+00B2"

\* Characters of category Nd: the ones str.isdecimal() and int() accept.
DecimalChars == {AsciiDigits[i] : i \in 1..10} \cup {AR3}
\* Characters str.isdigit() accepts: the decimals and the Numeric_Type=Digit
\* characters such as the superscripts.
IsDigitChars == DecimalChars \cup {SUP2}

DigitValue(c) ==
  IF c = AR3 THEN 3
  ELSE (CHOOSE i \in 1..10 : AsciiDigits[i] = c) - 1

ToUpper(c) ==
  IF \E i \in 1..26 : Lowers[i] = c
  THEN Uppers[CHOOSE i \in 1..26 : Lowers[i] = c] ELSE c

ToLower(c) ==
  IF \E i \in 1..26 : Uppers[i] = c
  THEN Lowers[CHOOSE i \in 1..26 : Uppers[i] = c] ELSE c

\* str.upper(), str.lower(), str.replace(a, b) for one-character a and b.
Upper(s) == [i \in 1..Len(s) |-> ToUpper(s[i])]
Lower(s) == [i \in 1..Len(s) |-> ToLower(s[i])]
Replace(s, a, b) == [i \in 1..Len(s) |-> IF s[i] = a THEN b ELSE s[i]]

\* str.strip(): drop the leading and trailing whitespace.
Strip(s) ==
  LET keep == {i \in 1..Len(s) : s[i] \notin Whitespace}
  IN  IF keep = {} THEN <<>>
      ELSE LET lo == CHOOSE i \in keep : \A j \in keep : i <= j
               hi == CHOOSE i \in keep : \A j \in keep : j <= i
           IN  SubSeq(s, lo, hi)

\* str.startswith(p)
StartsWith(s, p) == Len(s) >= Len(p) /\ SubSeq(s, 1, Len(p)) = p

\* str.split() with no argument: the maximal runs of non-whitespace.
RECURSIVE SplitFrom(_, _, _, _)
SplitFrom(s, i, cur, acc) ==
  IF i > Len(s)
  THEN IF cur = <<>> THEN acc ELSE Append(acc, cur)
  ELSE IF s[i] \in Whitespace
       THEN SplitFrom(s, i + 1, <<>>,
                      IF cur = <<>> THEN acc ELSE Append(acc, cur))
       ELSE SplitFrom(s, i + 1, Append(cur, s[i]), acc)

Split(s) == SplitFrom(s, 1, <<>>, <<>>)

\* str.isdigit(): non-empty and every character a digit.
IsDigit(s) == Len(s) > 0 /\ \A i \in 1..Len(s) : s[i] \in IsDigitChars

\* int(s) for a string of digits: the base-10 value, or ValueError when a
\* character is no decimal digit.
RECURSIVE DecimalValue(_)
DecimalValue(s) ==
  IF s = <<>> THEN 0
  ELSE 10 * DecimalValue(SubSeq(s, 1, Len(s) - 1)) + DigitValue(s[Len(s)])

ParseInt(s) ==
  IF Len(s) > 0 /\ \A i \in 1..Len(s) : s[i] \in DecimalChars
  THEN [ok |-> TRUE, val |-> DecimalValue(s)]
  ELSE [ok |-> FALSE, val |-> 0]

----------------------------------------------------------------------------
(* shazamio's GenreMusic enum: member name and value *)

GenreMusic ==
  << [name  |-> <<"P", "O", "P">>,
      value |-> <<"p", "o", "p">>],
     [name  |-> <<"H", "I", "P", "_", "H", "O", "P", "_", "R", "A", "P">>,
      value |-> <<"h", "i", "p", "-", "h", "o", "p", "-", "r", "a", "p">>],
     [name  |-> <<"D", "A", "N", "C", "E">>,
      value |-> <<"d", "a", "n", "c", "e">>],
     [name  |-> <<"E", "L", "E", "C", "T", "R", "O", "N", "I", "C">>,
      value |-> <<"e", "l", "e", "c", "t", "r", "o", "n", "i", "c">>],
     [name  |-> <<"R", "N", "B", "_", "S", "O", "U", "L">>,
      value |-> <<"r", "a", "n", "d", "b", "-", "s", "o", "u", "l">>],
     [name  |-> <<"A", "L", "T", "E", "R", "N", "A", "T", "I", "V", "E">>,
      value |-> <<"a", "l", "t", "e", "r", "n", "a", "t", "i", "v", "e">>],
     [name  |-> <<"R", "O", "C", "K">>,
      value |-> <<"r", "o", "c", "k">>],
     [name  |-> <<"L", "A", "T", "I", "N">>,
      value |-> <<"l", "a", "t", "i", "n">>],
     [name  |-> <<"F", "I", "L", "M", "_", "T", "V", "_", "S", "T", "A", "G", "E">>,
      value |-> <<"f", "i", "l", "m", "-", "t", "v", "-", "a", "n", "d", "-", "s", "t", "a", "g", "e">>],
     [name  |-> <<"C", "O", "U", "N", "T", "R", "Y">>,
      value |-> <<"c", "o", "u", "n", "t", "r", "y">>],
     [name  |-> <<"A", "F", "R", "O", "_", "B", "E", "A", "T", "S">>,
      value |-> <<"a", "f", "r", "o", "-", "b", "e", "a", "t", "s">>],
     [name  |-> <<"W", "O", "R", "L", "D", "W", "I", "D", "E">>,
      value |-> <<"w", "o", "r", "l", "d", "w", "i", "d", "e">>],
     [name  |-> <<"R", "E", "G", "G", "A", "E", "_", "D", "A", "N", "C", "E", "_", "H", "A", "L", "L">>,
      value |-> <<"r", "e", "g", "g", "a", "e", "-", "d", "a", "n", "c", "e", "h", "a", "l", "l">>],
     [name  |-> <<"H", "O", "U", "S", "E">>,
      value |-> <<"h", "o", "u", "s", "e">>],
     [name  |-> <<"K", "_", "P", "O", "P">>,
      value |-> <<"k", "-", "p", "o", "p">>],
     [name  |-> <<"F", "R", "E", "N", "C", "H", "_", "P", "O", "P">>,
      value |-> <<"f", "r", "e", "n", "c", "h", "-", "p", "o", "p">>],
     [name  |-> <<"S", "I", "N", "G", "E", "R", "_", "S", "O", "N", "G", "W", "R", "I", "T", "E", "R">>,
      value |-> <<"s", "i", "n", "g", "e", "r", "-", "s", "o", "n", "g", "w", "r", "i", "t", "e", "r">>],
     [name  |-> <<"R", "E", "G", "I", "O", "N", "A", "L", "_", "M", "E", "X", "I", "C", "A", "N", "O">>,
      value |-> <<"r", "e", "g", "i", "o", "n", "a", "l", "-", "m", "e", "x", "i", "c", "a", "n", "o">>] >>

Genres == 1..Len(GenreMusic)
\* No member: what a failed resolution leaves.
NoGenre == 0

\* GenreMusic[key]: the member of that name, or KeyError (NoGenre).
GenreByName(key) ==
  IF \E g \in Genres : GenreMusic[g].name = key
  THEN CHOOSE g \in Genres : GenreMusic[g].name = key
  ELSE NoGenre

\* GenreMusic(v): the member of that value, or ValueError (NoGenre).
GenreByValue(v) ==
  IF \E g \in Genres : GenreMusic[g].value = v
  THEN CHOOSE g \in Genres : GenreMusic[g].value = v
  ELSE NoGenre

\* normalized = genre_name.strip().upper().replace("-", "_").replace(" ", "_")
Normalize(genre_name) ==
  Replace(Replace(Upper(Strip(genre_name)), "-", "_"), " ", "_")

\* The try/except of the /genre branch: by name, then by value.
ResolveGenre(genre_name) ==
  LET normalized == Normalize(genre_name)
  IN  IF GenreByName(normalized) # NoGenre
      THEN GenreByName(normalized)
      ELSE GenreByValue(Replace(Lower(normalized), "_", "-"))

----------------------------------------------------------------------------
(* Values of the lookup results *)

\* A key a dict does not hold, and a value of a type the code does not
\* expect there (None, a string, a number).
Absent == [k |-> "absent"]
Other == [k |-> "other"]
NoneVal == [k |-> "none"]
\* dict.get(key) of a missing key, and of a field that is a string.
NoStr == "<absent>"

Dict(title, subtitle, heading) ==
  [k |-> "dict", title |-> title, subtitle |-> subtitle, heading |-> heading]
Heading(title, subtitle) ==
  [k |-> "dict", title |-> title, subtitle |-> subtitle]
List(items) == [k |-> "list", items |-> items]

\* Python's truth value of a string field: None and "" are false.
Falsy(v) == v \in {NoStr, ""}

\* track.get("heading", {}).get(key, default)
HeadingGet(track, key, default) ==
  IF track.heading = Absent \/ track.heading[key] = NoStr
  THEN default ELSE track.heading[key]

\* format_tracks with enumerate(tracks) left at its default start of 0.
FormatTracksFromZero(tracks) ==
  IF \E n \in 1..Len(tracks) : tracks[n].k # "dict"
  THEN [ok |-> FALSE, lines |-> <<>>]
  ELSE [ok |-> TRUE,
        lines |-> [n \in 1..Len(tracks) |->
          [idx |-> n - 1,
           title |-> IF ~Falsy(tracks[n].title) THEN tracks[n].title
                     ELSE HeadingGet(tracks[n], "title", "Unknown"),
           subtitle |-> IF ~Falsy(tracks[n].subtitle) THEN tracks[n].subtitle
                        ELSE HeadingGet(tracks[n], "subtitle", "")]]]

\* format_tracks: one line per track, numbered from 1; AttributeError
\* (ok = FALSE) when an element of the list has no .get, as None has none.
FormatTracks(tracks) ==
  IF \E n \in 1..Len(tracks) : tracks[n].k # "dict"
  THEN [ok |-> FALSE, lines |-> <<>>]
  ELSE [ok |-> TRUE,
        lines |-> [n \in 1..Len(tracks) |->
          [idx |-> n,
           title |-> IF ~Falsy(tracks[n].title) THEN tracks[n].title
                     ELSE HeadingGet(tracks[n], "title", "Unknown"),
           subtitle |-> IF ~Falsy(tracks[n].subtitle) THEN tracks[n].subtitle
                        ELSE HeadingGet(tracks[n], "subtitle", "")]]]

\* [f(x) for x in s if keep(x)]
RECURSIVE HitTracks(_)
HitTracks(hits) ==
  IF hits = <<>> THEN <<>>
  ELSE LET hit == Head(hits)
       IN  IF hit.k = "dict"
           THEN <<IF hit.track = Absent THEN NoneVal ELSE hit.track>>
                \o HitTracks(Tail(hits))
           ELSE HitTracks(Tail(hits))

\* The extraction of the /search branch (lines 190-195): the list under
\* "tracks" when that key holds a list, else the tracks of "song_hits".
SearchExtract(data) ==
  IF data.k # "dict" THEN <<>>
  ELSE IF data.tracks.k = "list" THEN data.tracks.items
  ELSE IF data.song_hits.k = "list" THEN HitTracks(data.song_hits.items)
  ELSE <<>>

----------------------------------------------------------------------------
(* The command branches *)

LitStart == <<"/", "s", "t", "a", "r", "t">>
LitTop == <<"/", "t", "o", "p">>
LitWorld == <<"/", "w", "o", "r", "l", "d">>
LitGenre == <<"/", "g", "e", "n", "r", "e">>
LitSearch == <<"/", "s", "e", "a", "r", "c", "h">>

\* The branch chosen by comparing the first token with the literals
\* (parts[0] == "/top") instead of testing the prefix.
ClassifyExact(text) ==
  LET parts == Split(text)
      word == IF parts = <<>> THEN <<>> ELSE parts[1]
  IN  IF word = LitStart THEN "Start"
      ELSE IF word = LitTop THEN "Top"
      ELSE IF word = LitWorld THEN "World"
      ELSE IF word = LitGenre THEN "Genre"
      ELSE IF word = LitSearch THEN "Search"
      ELSE "Unknown"

\* The chain of if text.startswith(...) tests, in the order of the code.
Classify(text) ==
  IF StartsWith(text, LitStart) THEN "Start"
  ELSE IF StartsWith(text, LitTop) THEN "Top"
  ELSE IF StartsWith(text, LitWorld) THEN "World"
  ELSE IF StartsWith(text, LitGenre) THEN "Genre"
  ELSE IF StartsWith(text, LitSearch) THEN "Search"
  ELSE "Unknown"

DefaultLimit == 10
DefaultCountry == <<"u", "s">>
SearchLimit == 5

\* limit = 10; if len(parts) > n and parts[n].isdigit(): limit = int(parts[n])
\* (at is n + 1: sequences are indexed from 1). ok = FALSE is int's ValueError.
ParseLimit(parts, at) ==
  IF Len(parts) >= at /\ IsDigit(parts[at])
  THEN LET n == ParseInt(parts[at])
       IN  [ok |-> n.ok, val |-> IF n.ok THEN n.val ELSE DefaultLimit]
  ELSE [ok |-> TRUE, val |-> DefaultLimit]

\* query = text[len("/search"):].strip()
SearchQuery(text) == Strip(SubSeq(text, Len(LitSearch) + 1, Len(text)))

\* The replies, by their fixed literal part.
HelpReply == [kind |-> "help"]
UnknownReply == [kind |-> "unknown"]
GenreUsageReply == [kind |-> "genre_usage"]
SearchUsageReply == [kind |-> "search_usage"]
InvalidGenreReply ==
  [kind |-> "invalid_genre",
   valid |-> [g \in Genres |-> GenreMusic[g].value]]
NoResultsReply(q) == [kind |-> "no_results", query |-> q]
TopReply(lim, c, lines) ==
  [kind |-> "top", limit |-> lim, country |-> Upper(c), lines |-> lines]
WorldReply(lim, lines) == [kind |-> "world", limit |-> lim, lines |-> lines]
GenreReply(lim, g, c, lines) ==
  [kind |-> "genre", limit |-> lim,
   genre |-> Replace(GenreMusic[g].value, "-", " "),
   country |-> Upper(c), lines |-> lines]
SearchReply(q, lines) == [kind |-> "search", query |-> q, lines |-> lines]

\* What a branch does before its first call of the bot or of the Shazam
\* client: next is "send" (reply is ready), "lookup" (the arguments are) or
\* "raise" (an exception left the handler).
Plan(next, reply, lim, c, g, q) ==
  [next |-> next, reply |-> reply, limit |-> lim, country |-> c,
   genre_enum |-> g, query |-> q]

NoReply == [kind |-> "none"]

TopPlan(text) ==
  LET parts == Split(text)
      c == IF Len(parts) > 1 THEN parts[2] ELSE DefaultCountry
      lim == ParseLimit(parts, 3)
  IN  Plan(IF lim.ok THEN "lookup" ELSE "raise", NoReply,
           lim.val, c, NoGenre, <<>>)

WorldPlan(text) ==
  LET parts == Split(text)
      lim == ParseLimit(parts, 2)
  IN  Plan(IF lim.ok THEN "lookup" ELSE "raise", NoReply,
           lim.val, <<>>, NoGenre, <<>>)

\* if len(parts) < 3: the usage hint
GenreHasArgs(parts) == ~(Len(parts) < 3)

GenrePlan(text) ==
  LET parts == Split(text)
  IN  IF ~GenreHasArgs(parts)
      THEN Plan("send", GenreUsageReply, DefaultLimit, <<>>, NoGenre, <<>>)
      ELSE LET lim == ParseLimit(parts, 4)
               g == ResolveGenre(parts[3])
           IN  IF ~lim.ok
               THEN Plan("raise", NoReply, lim.val, parts[2], NoGenre, <<>>)
               ELSE IF g = NoGenre
               THEN Plan("send", InvalidGenreReply, lim.val, parts[2], g, <<>>)
               ELSE Plan("lookup", NoReply, lim.val, parts[2], g, <<>>)

SearchPlan(text) ==
  LET q == SearchQuery(text)
  IN  IF q = <<>>
      THEN Plan("send", SearchUsageReply, SearchLimit, <<>>, NoGenre, q)
      ELSE Plan("lookup", NoReply, SearchLimit, <<>>, NoGenre, q)

BranchPlan(branch, text) ==
  CASE branch = "Start" ->
         Plan("send", HelpReply, DefaultLimit, <<>>, NoGenre, <<>>)
    [] branch = "Top" -> TopPlan(text)
    [] branch = "World" -> WorldPlan(text)
    [] branch = "Genre" -> GenrePlan(text)
    [] branch = "Search" -> SearchPlan(text)
    [] OTHER ->
         Plan("send", UnknownReply, DefaultLimit, <<>>, NoGenre, <<>>)

\* The call of the Shazam client a branch makes; get_top_country_tracks and
\* get_top_country_genre_tracks upper-case the country code.
LookupCall(branch, lim, c, g, q) ==
  CASE branch = "Top" ->
         [fn |-> "top_country_tracks", country |-> Upper(c),
          genre |-> NoGenre, query |-> <<>>, limit |-> lim]
    [] branch = "World" ->
         [fn |-> "top_world_tracks", country |-> <<>>,
          genre |-> NoGenre, query |-> <<>>, limit |-> lim]
    [] branch = "Genre" ->
         [fn |-> "top_country_genre_tracks", country |-> Upper(c),
          genre |-> g, query |-> <<>>, limit |-> lim]
    [] OTHER ->
         [fn |-> "search_track", country |-> <<>>,
          genre |-> NoGenre, query |-> q, limit |-> lim]

\* tracks = data.get("tracks", []) of the chart branches; ok = FALSE when
\* data has no .get or the value under "tracks" cannot be enumerated.
ChartTracks(data) ==
  IF data.k # "dict" THEN [ok |-> FALSE, tracks |-> <<>>]
  ELSE IF data.tracks = Absent THEN [ok |-> TRUE, tracks |-> <<>>]
  ELSE IF data.tracks.k # "list" THEN [ok |-> FALSE, tracks |-> <<>>]
  ELSE [ok |-> TRUE, tracks |-> data.tracks.items]

\* What a branch does with the lookup's result, up to its send_message:
\* the reply, or ok = FALSE when formatting raised.
BranchReply(branch, data, lim, c, g, q) ==
  IF branch = "Search"
  THEN LET tracks == SearchExtract(data)
           f == FormatTracks(tracks)
       IN  IF tracks = <<>> THEN [ok |-> TRUE, reply |-> NoResultsReply(q)]
           ELSE IF ~f.ok THEN [ok |-> FALSE, reply |-> NoReply]
           ELSE [ok |-> TRUE, reply |-> SearchReply(q, f.lines)]
  ELSE LET t == ChartTracks(data)
           f == FormatTracks(t.tracks)
       IN  IF ~t.ok \/ ~f.ok THEN [ok |-> FALSE, reply |-> NoReply]
           ELSE [ok |-> TRUE,
                 reply |-> CASE branch = "Top" -> TopReply(lim, c, f.lines)
                             [] branch = "World" -> WorldReply(lim, f.lines)
                             [] OTHER -> GenreReply(lim, g, c, f.lines)]

----------------------------------------------------------------------------
(* The inputs: updates the transport delivers, results the lookup returns *)

ChatIds == {"chat1", "chat2"}
NoChat == "nochat"

\* An update with a message, with a message that has no text (a photo),
\* and without a message (a callback query, an edited message).
Message(c, t) == [has_message |-> TRUE, chat |-> c, has_text |-> TRUE, text |-> t]
NoTextMessage(c) == [has_message |-> TRUE, chat |-> c, has_text |-> FALSE, text |-> <<>>]
NoMessage == [has_message |-> FALSE, chat |-> NoChat, has_text |-> FALSE, text |-> <<>>]

RECURSIVE Join(_)
Join(parts) ==
  IF parts = <<>> THEN <<>>
  ELSE IF Len(parts) = 1 THEN parts[1]
  ELSE parts[1] \o <<" ">> \o Join(Tail(parts))

TokUs == <<"u", "s">>
TokPop == <<"p", "o", "p">>

Heads ==
  { LitStart, LitTop, LitWorld, LitGenre, LitSearch,
    <<"/", "t", "o", "p", "x">>,
    <<"/", "s", "t", "a", "r", "t", "@", "b", "o", "t">>,
    <<"/", "s", "e", "a", "r", "c", "h", "f", "o", "o">>,
    <<"/", "u", "n", "k", "n", "o", "w", "n", "c", "m", "d">>,
    <<"h", "e", "l", "l", "o">>,
    <<"/", "T", "o", "p">>,
    <<"/", "t", "o">>,
    <<>> }

LimitTokens ==
  { <<"1">>, <<"0", "7">>, <<"1", "2">>, <<"a", "b", "c">>, <<"2", "a">>,
    <<SUP2>>, <<AR3>> }

GenreTokens ==
  {GenreMusic[g].value : g \in Genres}
  \cup {GenreMusic[g].name : g \in Genres}
  \cup {Lower(GenreMusic[g].name) : g \in Genres}
  \cup { <<"n", "o", "t", "_", "a", "_", "g", "e", "n", "r", "e">>,
         <<"H", "i", "p", "-", "H", "o", "p", "-", "R", "a", "p">>,
         <<"r", "n", "b", "-", "s", "o", "u", "l">>,
         <<"f", "i", "l", "m", "-", "t", "v", "-", "s", "t", "a", "g", "e">>,
         <<"K", "-", "P", "o", "p">>,
         <<"p", "o", "p", "-">> }

\* Every command literal followed by nothing, a country, a country and a number;
\* with and without surrounding whitespace.
DispatchTexts ==
  { pad \o Join(<<h>> \o args) \o pad :
      h \in Heads,
      args \in { <<>>, <<TokUs>>, <<TokUs, <<"1">> >> },
      pad \in { <<>>, <<" ">> } }

\* The chart commands with up to three arguments, each a word or a number.
ArgLists ==
  { <<>> }
  \cup { <<a>> : a \in {TokUs} \cup LimitTokens }
  \cup { <<a, b>> : a \in {TokUs} \cup LimitTokens, b \in {TokPop} \cup LimitTokens }
  \cup { <<a, b, c>> : a \in {TokUs} \cup LimitTokens,
                       b \in {TokPop} \cup LimitTokens, c \in LimitTokens }

ChartTexts == { Join(<<h>> \o args) : h \in {LitTop, LitWorld, LitGenre}, args \in ArgLists }

GenreTexts ==
  { Join(<<LitGenre, TokUs, g>> \o rest) :
      g \in GenreTokens, rest \in { <<>>, <<<<"1">>>>, <<<<SUP2>>>> } }

SearchTexts ==
  { LitSearch \o <<" ">>,
    LitSearch \o <<" ", " ", "t", "w", "o", " ", " ", "w", "o", "r", "d", "s", " ">>,
    LitSearch \o <<"\t", "a", "b", "c">> }

Texts == DispatchTexts \cup ChartTexts \cup GenreTexts \cup SearchTexts

Events ==
  { Message(c, t) : c \in ChatIds, t \in Texts }
  \cup { NoTextMessage(c) : c \in ChatIds }
  \cup { NoMessage }

SeqsUpTo(S, n) == UNION { [1..m -> S] : m \in 0..n }

TrackAB == Dict("A", "B", Absent)
TrackHeading == Dict(NoStr, "", Heading("H", NoStr))
TrackVals == { TrackAB, TrackHeading, NoneVal }

Hit(track) == [k |-> "dict", track |-> track]
HitVals == { Hit(TrackAB), Hit(Absent), Other }

Data(tracks, song_hits) == [k |-> "dict", tracks |-> tracks, song_hits |-> song_hits]

ListField(S, n) == { Absent, Other } \cup { List(l) : l \in SeqsUpTo(S, n) }

\* What top_country_tracks, top_world_tracks and top_country_genre_tracks
\* may return, and what search_track may.
ChartResults == { Other } \cup { Data(t, Absent) : t \in ListField(TrackVals, MaxTracks) }
SearchResults ==
  { Other }
  \cup { Data(t, h) : t \in ListField(TrackVals, MaxTracks),
                      h \in ListField(HitVals, MaxTracks) }

Universe == [chart |-> ChartResults, search |-> SearchResults]

\* The outcome of a call that raised.
Raised == [k |-> "raised"]

----------------------------------------------------------------------------
(* The state *)

Workers == 1..NumWorkers

VARIABLES
  pc,         \* where each invocation of telegram_webhook is
  event,      \* the update each invocation was given
  chat_id, text, branch, limit, country, genre_enum, query, data, reply,
              \* the locals of each invocation
  response,   \* what each invocation returned to Flask
  sent,       \* the send_message calls each invocation made
  lookups     \* the Shazam calls each invocation made, with their outcomes

locals == <<chat_id, text, branch, limit, country, genre_enum, query, data, reply>>
vars == <<pc, event, locals, response, sent, lookups>>

\* chat_id, text and the rest held in module globals, as bot and shazam are:
\* one frame for all the invocations.
SharedFrame(i) == 1

\* The frame holding the locals of invocation i: its own.
Frame(i) == i

NoEvent == NoMessage

InitLocals ==
  /\ chat_id = [i \in Workers |-> NoChat]
  /\ text = [i \in Workers |-> <<>>]
  /\ branch = [i \in Workers |-> "none"]
  /\ limit = [i \in Workers |-> DefaultLimit]
  /\ country = [i \in Workers |-> <<>>]
  /\ genre_enum = [i \in Workers |-> NoGenre]
  /\ query = [i \in Workers |-> <<>>]
  /\ data = [i \in Workers |-> Raised]
  /\ reply = [i \in Workers |-> NoReply]
  /\ response = [i \in Workers |-> "none"]
  /\ sent = [i \in Workers |-> <<>>]
  /\ lookups = [i \in Workers |-> <<>>]

\* One update was posted: invocation 1 handles it, the others never start.
Init ==
  /\ \E e \in Events :
       /\ event = [i \in Workers |-> IF i = 1 THEN e ELSE NoEvent]
       /\ pc = [i \in Workers |-> IF i = 1 THEN "recv" ELSE "idle"]
  /\ InitLocals

----------------------------------------------------------------------------
(* The steps of telegram_webhook *)

\* An exception leaves the handler: Flask answers 500.
Fails(i) ==
  /\ pc' = [pc EXCEPT ![i] = "done"]
  /\ response' = [response EXCEPT ![i] = "error"]

\* Lines 85-90: decode the update; without a message, go to the last return.
Receive(i) ==
  /\ pc[i] = "recv"
  /\ IF event[i].has_message
     THEN /\ chat_id' = [chat_id EXCEPT ![Frame(i)] = event[i].chat]
          /\ text' = [text EXCEPT ![Frame(i)] =
                        Strip(IF event[i].has_text THEN event[i].text ELSE <<>>)]
          /\ pc' = [pc EXCEPT ![i] = "dispatch"]
     ELSE /\ pc' = [pc EXCEPT ![i] = "ret"]
          /\ UNCHANGED <<chat_id, text>>
  /\ UNCHANGED <<event, branch, limit, country, genre_enum, query, data, reply,
                 response, sent, lookups>>

\* Lines 93-211 up to the branch's first call: choose the branch, parse its
\* arguments.
Dispatch(i) ==
  /\ pc[i] = "dispatch"
  /\ LET b == Classify(text[Frame(i)])
         p == BranchPlan(b, text[Frame(i)])
     IN  /\ branch' = [branch EXCEPT ![Frame(i)] = b]
         /\ limit' = [limit EXCEPT ![Frame(i)] = p.limit]
         /\ country' = [country EXCEPT ![Frame(i)] = p.country]
         /\ genre_enum' = [genre_enum EXCEPT ![Frame(i)] = p.genre_enum]
         /\ query' = [query EXCEPT ![Frame(i)] = p.query]
         /\ reply' = [reply EXCEPT ![Frame(i)] = p.reply]
         /\ IF p.next = "raise"
            THEN Fails(i)
            ELSE /\ pc' = [pc EXCEPT ![i] = p.next]
                 /\ UNCHANGED response
  /\ UNCHANGED <<event, chat_id, text, data, sent, lookups>>

\* data = asyncio.run(...): the call returns a result of universe U or raises.
Lookup(i, U) ==
  /\ pc[i] = "lookup"
  /\ LET f == Frame(i)
         call == LookupCall(branch[f], limit[f], country[f], genre_enum[f], query[f])
     IN  \E out \in (IF call.fn = "search_track" THEN U.search ELSE U.chart)
                    \cup {Raised} :
           /\ lookups' = [lookups EXCEPT ![i] =
                            Append(@, [call |-> call, result |-> out])]
           /\ IF out = Raised
              THEN Fails(i) /\ UNCHANGED data
              ELSE /\ data' = [data EXCEPT ![f] = out]
                   /\ pc' = [pc EXCEPT ![i] = "format"]
                   /\ UNCHANGED response
  /\ UNCHANGED <<event, chat_id, text, branch, limit, country, genre_enum,
                 query, reply, sent>>

\* From the result to the reply text: extraction and format_tracks.
Format(i) ==
  /\ pc[i] = "format"
  /\ LET f == Frame(i)
         r == BranchReply(branch[f], data[f], limit[f], country[f],
                          genre_enum[f], query[f])
     IN  IF r.ok
         THEN /\ reply' = [reply EXCEPT ![f] = r.reply]
              /\ pc' = [pc EXCEPT ![i] = "send"]
              /\ UNCHANGED response
         ELSE Fails(i) /\ UNCHANGED reply
  /\ UNCHANGED <<event, chat_id, text, branch, limit, country, genre_enum,
                 query, data, sent, lookups>>

\* bot.send_message(chat_id=chat_id, text=...): the call returns or raises.
Send(i) ==
  /\ pc[i] = "send"
  /\ \E delivered \in BOOLEAN :
       /\ sent' = [sent EXCEPT ![i] =
                     Append(@, [chat |-> chat_id[Frame(i)],
                                text |-> reply[Frame(i)],
                                delivered |-> delivered])]
       /\ IF delivered
          THEN pc' = [pc EXCEPT ![i] = "ret"] /\ UNCHANGED response
          ELSE Fails(i)
  /\ UNCHANGED <<event, locals, lookups>>

\* return jsonify({"status": "ok"})
Return(i) ==
  /\ pc[i] = "ret"
  /\ pc' = [pc EXCEPT ![i] = "done"]
  /\ response' = [response EXCEPT ![i] = "ok"]
  /\ UNCHANGED <<event, locals, sent, lookups>>

Next ==
  \E i \in Workers :
    \/ Receive(i)
    \/ Dispatch(i)
    \/ Lookup(i, Universe)
    \/ Format(i)
    \/ Send(i)
    \/ Return(i)

Spec == Init /\ [][Next]_vars

----------------------------------------------------------------------------
(* Several invocations at once *)

\* Flask runs one invocation per request, each in its own thread: every
\* invocation has an update, and their steps interleave.
ConcTexts ==
  { LitStart,
    Join(<<LitTop, TokUs, <<"1">> >>),
    Join(<<LitSearch, <<"a", "b", "c">> >>) }

ConcEvents == { Message(c, t) : c \in ChatIds, t \in ConcTexts } \cup { NoMessage }

ConcUniverse ==
  [chart |-> { Data(List(<<TrackAB>>), Absent),
               Data(List(<<TrackHeading, TrackAB>>), Absent) },
   search |-> { Data(Absent, List(<<Hit(TrackAB)>>)) }]

ConcInit ==
  /\ event \in [Workers -> ConcEvents]
  /\ pc = [i \in Workers |-> "recv"]
  /\ InitLocals

ConcNext ==
  \E i \in Workers :
    \/ Receive(i)
    \/ Dispatch(i)
    \/ Lookup(i, ConcUniverse)
    \/ Format(i)
    \/ Send(i)
    \/ Return(i)

ConcSpec == ConcInit /\ [][ConcNext]_vars

----------------------------------------------------------------------------
(* What the properties below speak of *)

Commands == {"Start", "Top", "World", "Genre", "Search"}

Literal(c) ==
  CASE c = "Start" -> LitStart
    [] c = "Top" -> LitTop
    [] c = "World" -> LitWorld
    [] c = "Genre" -> LitGenre
    [] OTHER -> LitSearch

\* The trimmed text of the update's message, and its whitespace-delimited tokens.
TrimmedText(i) == Strip(IF event[i].has_text THEN event[i].text ELSE <<>>)
Tokens(i) == Split(TrimmedText(i))
LeadingToken(i) == IF Tokens(i) = <<>> THEN <<>> ELSE Tokens(i)[1]

\* The invocation handles a message and has chosen its branch.
Dispatched(i) ==
  event[i].has_message /\ pc[i] \in {"lookup", "format", "send", "ret", "done"}
Finished(i) == pc[i] = "done"

\* An exception left the handler before any call of the bot or the client.
RaisedInDispatch(i) ==
  /\ pc[i] = "done" /\ response[i] = "error"
  /\ lookups[i] = <<>> /\ sent[i] = <<>>

\* The token the limit is read from: third of /top, second of /world,
\* fourth of /genre.
LimitAt(i) ==
  CASE branch[i] = "Top" -> 3
    [] branch[i] = "World" -> 2
    [] OTHER -> 4

IsDecimalToken(tok) ==
  tok # <<>> /\ \A n \in 1..Len(tok) : tok[n] \in DecimalChars

ExpectedLimit(i) ==
  IF Len(Tokens(i)) >= LimitAt(i) /\ IsDecimalToken(Tokens(i)[LimitAt(i)])
  THEN DecimalValue(Tokens(i)[LimitAt(i)])
  ELSE 10

\* The /genre command has its two required arguments.
GenreWithArgs(i) == branch[i] = "Genre" /\ Len(Tokens(i)) >= 3

\* The two-step resolution as the specification words it.
ExpectedGenre(tok) ==
  LET up == Replace(Replace(Upper(Strip(tok)), "-", "_"), " ", "_")
      low == Replace(Lower(up), "_", "-")
  IN  IF \E g \in Genres : GenreMusic[g].name = up
      THEN CHOOSE g \in Genres : GenreMusic[g].name = up
      ELSE IF \E g \in Genres : GenreMusic[g].value = low
      THEN CHOOSE g \in Genres : GenreMusic[g].value = low
      ELSE NoGenre

ExpectedLookups(i) ==
  CASE branch[i] \in {"Top", "World"} -> 1
    [] branch[i] = "Genre" ->
         IF GenreWithArgs(i) /\ ExpectedGenre(Tokens(i)[3]) # NoGenre
         THEN 1 ELSE 0
    [] branch[i] = "Search" ->
         IF Strip(SubSeq(TrimmedText(i), 8, Len(TrimmedText(i)))) # <<>>
         THEN 1 ELSE 0
    [] OTHER -> 0

\* The fixed reply of a branch that stops at a validation.
ValidationReply(i) ==
  CASE branch[i] = "Genre" /\ ~GenreWithArgs(i) -> GenreUsageReply
    [] branch[i] = "Genre" -> InvalidGenreReply
    [] OTHER -> SearchUsageReply

WellFormedHit(hit) == hit.k = "dict" /\ hit.track.k = "dict"

RECURSIVE WellFormedTracks(_)
WellFormedTracks(hits) ==
  IF hits = <<>> THEN <<>>
  ELSE (IF WellFormedHit(Head(hits)) THEN <<Head(hits).track>> ELSE <<>>)
       \o WellFormedTracks(Tail(hits))

\* The result of the invocation's lookup call, once it has returned one.
HasResult(i) == lookups[i] # <<>> /\ lookups[i][1].result # Raised
Result(i) == lookups[i][1].result

----------------------------------------------------------------------------
(* The properties *)

\* C1: when the handling of an update ends, exactly one send_message call was
\* made if the update carries a message and none if it does not, whichever
\* branch ran and whether the lookup returned or raised. Stated for the
\* invocations whose argument parsing did not raise: that case is C5's.
C1_OneReplyPerMessage ==
  \A i \in Workers :
    Finished(i) /\ ~RaisedInDispatch(i) =>
      Len(sent[i]) = (IF event[i].has_message THEN 1 ELSE 0)

\* C2: telegram_webhook returns the acknowledgment for every update; a lookup
\* or a send_message that raises does not prevent it. Stated for the
\* invocations whose argument parsing did not raise: that case is C5's.
C2_AlwaysAcknowledged ==
  \A i \in Workers :
    Finished(i) /\ ~RaisedInDispatch(i) => response[i] = "ok"

\* C3: a message-bearing update makes exactly one lookup call in the Top and
\* World branches, in Genre with two arguments and a resolvable genre and in
\* Search with a non-empty query, and none otherwise; where validation stops
\* the branch, the single reply is the usage hint or the list of genres.
C3_LookupCount ==
  \A i \in Workers :
    Finished(i) /\ event[i].has_message =>
      /\ Len(lookups[i]) = ExpectedLookups(i)
      /\ (branch[i] \in {"Genre", "Search"} /\ ExpectedLookups(i) = 0) =>
           /\ Len(sent[i]) = 1
           /\ sent[i][1].text = ValidationReply(i)

\* C3 apart from int's ValueError (C5): the count of lookup calls of the
\* invocations whose argument parsing did not raise.
C3_LookupCountWhenParsed ==
  \A i \in Workers :
    Finished(i) /\ event[i].has_message /\ ~RaisedInDispatch(i) =>
      /\ Len(lookups[i]) = ExpectedLookups(i)
      /\ (branch[i] \in {"Genre", "Search"} /\ ExpectedLookups(i) = 0) =>
           /\ Len(sent[i]) = 1
           /\ sent[i][1].text = ValidationReply(i)

\* C4 as stated: a branch is taken only when the leading token of the trimmed
\* text is the branch's literal; every other text gets the unknown-command
\* reply.
C4_LeadingTokenDispatch ==
  \A i \in Workers :
    Dispatched(i) =>
      /\ \A c \in Commands : branch[i] = c <=> LeadingToken(i) = Literal(c)
      /\ branch[i] = "Unknown" <=>
           (\A c \in Commands : LeadingToken(i) # Literal(c))

\* C4 as amended: a branch is taken exactly when the trimmed text starts with
\* the branch's literal, whatever follows it in the same token; a text that
\* starts with none of the five gets the unknown-command reply. Each literal
\* is characterised on its own, so the order of the tests does not matter.
C4_PrefixDispatch ==
  \A i \in Workers :
    Dispatched(i) =>
      /\ \A c \in Commands :
           branch[i] = c <=> StartsWith(TrimmedText(i), Literal(c))
      /\ branch[i] = "Unknown" <=>
           (\A c \in Commands : ~StartsWith(TrimmedText(i), Literal(c)))
      /\ branch[i] = "Unknown" =>
           /\ pc[i] = "send" => reply[i] = UnknownReply
           /\ pc[i] \in {"ret", "done"} =>
                Len(sent[i]) = 1 /\ sent[i][1].text = UnknownReply

\* C4, the case: a text whose leading token extends a literal took the
\* literal's branch.
C4_Witness ==
  \E i \in Workers :
    /\ Dispatched(i) /\ branch[i] = "Top"
    /\ LeadingToken(i) # LitTop
    /\ lookups[i] # <<>>

\* C5: in the Top, World and Genre branches the limit is the value of the
\* designated token when that token exists and consists of decimal digits,
\* and 10 otherwise; such a token never makes the handler raise.
C5_LimitParsing ==
  \A i \in Workers :
    Dispatched(i) /\ (branch[i] \in {"Top", "World"} \/ GenreWithArgs(i)) =>
      /\ ~RaisedInDispatch(i)
      /\ limit[i] = ExpectedLimit(i)
      /\ lookups[i] # <<>> => lookups[i][1].call.limit = ExpectedLimit(i)

\* C6 as stated: the reply of /top with limit L lists at most L tracks.
C6_AtMostLimitLines ==
  \A i \in Workers :
    branch[i] = "Top" /\ sent[i] # <<>> =>
      Len(sent[i][1].text.lines) <= limit[i]

\* C6 as amended: the limit L of /top is passed to the lookup call and named
\* in the reply's header; the reply lists every track of the list the call
\* returned, numbered consecutively from 1, also when the list is longer
\* than L.
C6_ListsEveryReturnedTrack ==
  \A i \in Workers :
    branch[i] = "Top" /\ sent[i] # <<>> =>
      LET r == sent[i][1].text
          returned == IF Result(i).tracks = Absent THEN <<>>
                      ELSE Result(i).tracks.items
      IN  /\ lookups[i][1].call.limit = limit[i]
          /\ r.kind = "top" /\ r.limit = limit[i]
          /\ Len(r.lines) = Len(returned)
          /\ \A n \in 1..Len(r.lines) : r.lines[n].idx = n

\* C6, the case: the lookup returned more tracks than the limit and the
\* reply was sent.
C6_Witness ==
  \E i \in Workers :
    /\ branch[i] = "Top" /\ sent[i] # <<>>
    /\ HasResult(i) /\ Result(i).tracks # Absent
    /\ Len(Result(i).tracks.items) > limit[i]
    /\ Len(sent[i][1].text.lines) = Len(Result(i).tracks.items)

\* C7: the genre token is resolved by member name first and by value second;
\* a token that is the value of member g makes the lookup run with g, and a
\* token neither step resolves gets the list of valid genres and no lookup.
C7_GenreResolution ==
  \A i \in Workers :
    Finished(i) /\ GenreWithArgs(i) =>
      LET tok == Tokens(i)[3]
      IN  /\ \A g \in Genres :
               tok = GenreMusic[g].value =>
                 /\ genre_enum[i] = g
                 /\ lookups[i] # <<>> /\ lookups[i][1].call.genre = g
          /\ ExpectedGenre(tok) # NoGenre =>
               /\ lookups[i] # <<>>
               /\ lookups[i][1].call.genre = ExpectedGenre(tok)
          /\ ExpectedGenre(tok) = NoGenre =>
               /\ lookups[i] = <<>>
               /\ Len(sent[i]) = 1 /\ sent[i][1].text = InvalidGenreReply

\* C7 apart from int's ValueError (C5): the resolution of the invocations
\* whose argument parsing did not raise.
C7_GenreResolutionWhenParsed ==
  \A i \in Workers :
    Finished(i) /\ GenreWithArgs(i) /\ ~RaisedInDispatch(i) =>
      LET tok == Tokens(i)[3]
      IN  /\ \A g \in Genres :
               tok = GenreMusic[g].value =>
                 /\ genre_enum[i] = g
                 /\ lookups[i] # <<>> /\ lookups[i][1].call.genre = g
          /\ ExpectedGenre(tok) # NoGenre =>
               /\ lookups[i] # <<>>
               /\ lookups[i][1].call.genre = ExpectedGenre(tok)
          /\ ExpectedGenre(tok) = NoGenre =>
               /\ lookups[i] = <<>>
               /\ Len(sent[i]) = 1 /\ sent[i][1].text = InvalidGenreReply

\* C8: when the search result holds an empty "tracks" list and a non-empty
\* "song_hits" list of well-formed wrappers, the reply lists the wrapped
\* tracks; it is not the no-results message.
C8_FallsBackToSongHits ==
  \A i \in Workers :
    /\ branch[i] = "Search" /\ HasResult(i) /\ sent[i] # <<>>
    /\ Result(i).k = "dict"
    /\ Result(i).tracks = List(<<>>)
    /\ Result(i).song_hits.k = "list"
    /\ Result(i).song_hits.items # <<>>
    /\ \A n \in 1..Len(Result(i).song_hits.items) :
         WellFormedHit(Result(i).song_hits.items[n])
    => sent[i][1].text =
         SearchReply(query[i],
                     FormatTracks(WellFormedTracks(Result(i).song_hits.items)).lines)

\* C9: when the tracks are taken from "song_hits", the entries that are no
\* well-formed wrapper are skipped: formatting does not fail, the reply is
\* built from the well-formed entries alone, and one reply is sent.
C9_MalformedHitsSkipped ==
  \A i \in Workers :
    /\ branch[i] = "Search" /\ HasResult(i)
    /\ pc[i] \in {"send", "ret", "done"}
    /\ Result(i).k = "dict"
    /\ Result(i).tracks.k # "list"
    /\ Result(i).song_hits.k = "list"
    => LET wf == WellFormedTracks(Result(i).song_hits.items)
       IN  /\ reply[i] = IF wf = <<>> THEN NoResultsReply(query[i])
                         ELSE SearchReply(query[i], FormatTracks(wf).lines)
           /\ Finished(i) => Len(sent[i]) = 1

\* C10: with invocations running at the same time, every reply goes to the
\* chat of the update its invocation was given, the locals an invocation
\* reads are the ones it wrote, and the reply text is a function of the
\* update's text and of the results of the invocation's own lookup calls.
C10_NoCrossTalk ==
  /\ \A i \in Workers :
       /\ \A n \in 1..Len(sent[i]) : sent[i][n].chat = event[i].chat
       /\ Dispatched(i) =>
            /\ chat_id[i] = event[i].chat
            /\ text[i] = TrimmedText(i)
       /\ (pc[i] \in {"format", "send", "ret"} /\ lookups[i] # <<>>) =>
            data[i] = lookups[i][1].result
  /\ \A i, j \in Workers :
       /\ sent[i] # <<>> /\ sent[j] # <<>>
       /\ TrimmedText(i) = TrimmedText(j)
       /\ [n \in 1..Len(lookups[i]) |-> lookups[i][n].result]
            = [n \in 1..Len(lookups[j]) |-> lookups[j][n].result]
       => sent[i][1].text = sent[j][1].text

\* C10, the case: two invocations for different chats and different texts,
\* each with a lookup of its own, have both sent their reply.
C10_Witness ==
  \E i, j \in Workers :
    /\ i # j
    /\ sent[i] # <<>> /\ sent[j] # <<>>
    /\ event[i].chat # event[j].chat
    /\ TrimmedText(i) # TrimmedText(j)
    /\ HasResult(i) /\ HasResult(j)
    /\ sent[i][1].text # sent[j][1].text

====
